---- MODULE Spec2Model ----
(***************************************************************************)
(* mdump (src/mdump.py): MySQL backup and restore command-line tool.       *)
(*                                                                         *)
(* Text is modelled as a sequence of one-character strings, a file name as *)
(* the sequence of its dot-separated segments ("a.tar.gz" is               *)
(* <<"a","tar","gz">>, ".zip" is <<"","zip">>), and a path as the sequence *)
(* of its components (<<>> is the current directory ".").                  *)
(***************************************************************************)
EXTENDS Integers, Sequences, FiniteSets, TLC

VARIABLES
    \* ---- selection prompt (MySQLBackupTool.select_databases / parse_selection)
    sel_pc,         \* "call" (parse_selection is called directly), "called", "enter",
                    \* "prompt", "answered", "returned", "raised" (an exception left
                    \* select_databases); "idle" in other runs
    offered,        \* the databases argument of select_databases
    selection,      \* the text last answered at the prompt / last passed to parse_selection
    max_num,        \* the max_num argument of the last parse_selection call
    parsed,         \* outcome of the last parse_selection call, NoCall when none
    confirmed,      \* the answer to "Continue with this selection?" in the last iteration
    sel_return,     \* return value of select_databases, NotReturned before
    err_msgs,       \* whether the last iteration printed "Invalid selection"
    \* ---- the run and its surroundings
    cmd,            \* "select" (the selection prompt alone), "backup", "restore" or
                    \* "roundtrip" (compress_backups, then extract_backup)
    now,            \* the last reading of the clock, in seconds
    fs,             \* the files on disk: path -> content
    dirs,           \* the directories on disk
    exit_status,    \* how the process ended: [exited, code, at]
    \* ---- MySQLBackupTool
    bk_pc,          \* "new", "constructed", "connected", "ready", "dumping", "done",
                    \* "exited" (the command ended before create_backup); "idle" in other runs
    output_path,    \* the -o argument: [given, path]
    output_dir,     \* self.output_dir
    custom_filename, \* self.custom_filename: [given, name]
    databases,      \* the argument of create_backup
    bk_i,           \* the position of "for db_name in databases"
    timestamp,      \* create_backup's timestamp
    backup_files,   \* create_backup's backup_files
    dump_log,       \* the dump_database calls made, in order: [db, ok, outcome]
    compress_log,   \* the compress_backups calls made: [files, outcome]
    bk_return,      \* return value of create_backup: [returned, path]
    \* ---- MySQLRestoreTool
    rs_pc,          \* "start", "extract", "confirm", "loop", "cleanup", "done"; "idle" in other runs
    tar_file_path,  \* the -f argument
    server,         \* the databases of the server: name -> "old", "empty", "partial", "restored"
    sql_files,      \* restore_backup's sql_files
    rs_i,           \* the position of "for sql_file in sql_files"
    success_count,  \* restore_backup's success_count
    ops,            \* what the loop did, in order: [op, db, res]
    tally,          \* the "Restore completed: x/y" line: [printed, succeeded, attempted]
    rs_return       \* return value of restore_backup: [returned, value]

selVars == <<sel_pc, offered, selection, max_num, parsed, confirmed, sel_return,
             err_msgs>>

envVars == <<cmd, now, fs, dirs, exit_status>>

bkVars == <<bk_pc, output_path, output_dir, custom_filename, databases, bk_i, timestamp,
            backup_files, dump_log, compress_log, bk_return>>

rsVars == <<rs_pc, tar_file_path, server, sql_files, rs_i, success_count, ops, tally,
            rs_return>>

vars == <<selVars, envVars, bkVars, rsVars>>

\* ------------------------------------------------------------------ bounds
MaxLen == 4         \* longest selection text drawn exhaustively
MaxNum == 3         \* largest max_num of a direct parse_selection call
MaxOffered == 3     \* most databases offered at the prompt
MaxDbs == 3         \* most databases handed to create_backup
MaxSegs == 3        \* most dot-separated segments of an output file name
MaxClock == 2       \* the clock readings are 1..MaxClock

\* ------------------------------------------------------------------ text helpers
NoCall == [called |-> FALSE]
NotReturned == <<"not returned">>

Digits == <<"0", "1", "2", "3", "4", "5", "6", "7", "8", "9">>

IsDigit(c) == \E i \in 1..10 : Digits[i] = c

DigitVal(c) == (CHOOSE i \in 1..10 : Digits[i] = c) - 1

IsSpace(c) == c = " "

RECURSIVE LStrip(_)
LStrip(s) == IF s # <<>> /\ IsSpace(Head(s)) THEN LStrip(Tail(s)) ELSE s

RECURSIVE RStrip(_)
RStrip(s) ==
    IF s # <<>> /\ IsSpace(s[Len(s)]) THEN RStrip(SubSeq(s, 1, Len(s) - 1)) ELSE s

\* str.strip()
Strip(s) == RStrip(LStrip(s))

\* c in s
Contains(s, c) == \E i \in 1..Len(s) : s[i] = c

\* index of the first c in s, 0 when there is none
FirstIndex(s, c) ==
    IF Contains(s, c) THEN CHOOSE i \in 1..Len(s) : s[i] = c /\ \A j \in 1..(i - 1) : s[j] # c
    ELSE 0

\* str.split(sep): always at least one part
RECURSIVE Split(_, _)
Split(s, sep) ==
    LET i == FirstIndex(s, sep)
    IN  IF i = 0 THEN <<s>>
        ELSE <<SubSeq(s, 1, i - 1)>> \o Split(SubSeq(s, i + 1, Len(s)), sep)

\* str.split(sep, 1) of a text that holds sep
SplitOnce(s, sep) ==
    LET i == FirstIndex(s, sep)
    IN  <<SubSeq(s, 1, i - 1), SubSeq(s, i + 1, Len(s))>>

LowerChar(c) ==
    CASE c = "A" -> "a"
      [] c = "L" -> "l"
      [] OTHER -> c

\* str.lower() (the upper-case letters of the alphabet drawn from are A and L)
Lower(s) == [i \in 1..Len(s) |-> LowerChar(s[i])]

\* the digits-and-underscores body int() accepts: digits, single underscores between them
DigitBody(s) ==
    /\ s # <<>>
    /\ \A i \in 1..Len(s) : IsDigit(s[i]) \/ s[i] = "_"
    /\ IsDigit(s[1]) /\ IsDigit(s[Len(s)])
    /\ \A i \in 1..(Len(s) - 1) : ~(s[i] = "_" /\ s[i + 1] = "_")

RECURSIVE DigitsValue(_, _)
DigitsValue(s, acc) ==
    IF s = <<>> THEN acc
    ELSE IF Head(s) = "_" THEN DigitsValue(Tail(s), acc)
    ELSE DigitsValue(Tail(s), 10 * acc + DigitVal(Head(s)))

\* int(text): surrounding white space is dropped, one sign is allowed; a
\* ValueError ("invalid literal for int()") is [ok |-> FALSE]
PyInt(text) ==
    LET t == Strip(text)
        signed == t # <<>> /\ Head(t) \in {"+", "-"}
        body == IF signed THEN Tail(t) ELSE t
    IN  IF DigitBody(body)
        THEN [ok |-> TRUE,
              val |-> IF signed /\ Head(t) = "-" THEN 0 - DigitsValue(body, 0)
                      ELSE DigitsValue(body, 0)]
        ELSE [ok |-> FALSE, val |-> 0]

\* sorted(indices)
RECURSIVE SortedSeq(_)
SortedSeq(S) ==
    IF S = {} THEN <<>>
    ELSE LET m == CHOOSE x \in S : \A y \in S : x <= y
         IN  <<m>> \o SortedSeq(S \ {m})

\* ------------------------------------------------------------------ parse_selection
\* The three ValueErrors parse_selection can raise, told apart by their message:
\*   "Invalid range: ..."      -> InvalidRange
\*   "Number out of range: ..." -> OutOfRange
\*   int()'s "invalid literal" -> NotANumber
ParseOk(indices) == [called |-> TRUE, ok |-> TRUE, kind |-> "none", indices |-> indices]
ParseError(kind) == [called |-> TRUE, ok |-> FALSE, kind |-> kind, indices |-> <<>>]

\* RangePart with range(start, end) in place of range(start, end + 1)
RangePart_ExclusiveEnd(part, maxnum) ==
    LET halves == SplitOnce(part, "-")
        start == PyInt(Strip(halves[1]))
        end == PyInt(Strip(halves[2]))
    IN  IF ~start.ok \/ ~end.ok THEN [ok |-> FALSE, kind |-> "NotANumber", add |-> {}]
        ELSE IF start.val < 1 \/ end.val > maxnum \/ start.val > end.val
        THEN [ok |-> FALSE, kind |-> "InvalidRange", add |-> {}]
        ELSE [ok |-> TRUE, kind |-> "none", add |-> start.val .. (end.val - 1)]

\* the range branch of the loop body: the indices the part adds, or the error
RangePart(part, maxnum) ==
    LET halves == SplitOnce(part, "-")
        start == PyInt(Strip(halves[1]))
        end == PyInt(Strip(halves[2]))
    IN  IF ~start.ok \/ ~end.ok THEN [ok |-> FALSE, kind |-> "NotANumber", add |-> {}]
        ELSE IF start.val < 1 \/ end.val > maxnum \/ start.val > end.val
        THEN [ok |-> FALSE, kind |-> "InvalidRange", add |-> {}]
        ELSE [ok |-> TRUE, kind |-> "none", add |-> start.val .. end.val]

\* the individual-number branch of the loop body
NumberPart(part, maxnum) ==
    LET num == PyInt(part)
    IN  IF ~num.ok THEN [ok |-> FALSE, kind |-> "NotANumber", add |-> {}]
        ELSE IF num.val < 1 \/ num.val > maxnum
        THEN [ok |-> FALSE, kind |-> "OutOfRange", add |-> {}]
        ELSE [ok |-> TRUE, kind |-> "none", add |-> {num.val}]

\* one iteration of "for part in parts"
PartIndices(rawpart, maxnum) ==
    LET part == Strip(rawpart)
    IN  IF Contains(part, "-") THEN RangePart(part, maxnum) ELSE NumberPart(part, maxnum)

RECURSIVE ParseParts(_, _, _)
ParseParts(parts, maxnum, indices) ==
    IF parts = <<>> THEN ParseOk(SortedSeq(indices))
    ELSE LET r == PartIndices(Head(parts), maxnum)
         IN  IF r.ok THEN ParseParts(Tail(parts), maxnum, indices \cup r.add)
             ELSE ParseError(r.kind)

\* MySQLBackupTool.parse_selection(selection, max_num)
ParseSelection(sel, maxnum) == ParseParts(Split(sel, ","), maxnum, {})

\* ------------------------------------------------------------------ select_databases
\* the characters selection texts are drawn from
Alphabet == {"0", "1", "2", ",", "-", " ", "a"}

\* every text of at most n characters of the alphabet
TextsUpTo(n) == UNION {[1..k -> Alphabet] : k \in 0..n}

\* longer selections of the documentation and of the prompt's help text
ExampleTexts ==
    { <<"1", ",", "3", "-", "5", ",", "7">>,
      <<"1", ",", "3", ",", "5">>,
      <<"1", "-", "2", ",", "2", "-", "3">>,
      <<"3", ",", "1", "-", "2">>,
      <<"2", "-", "3", ",", "1">>,
      <<"0", "-", "2">>, <<"9">>, <<"-", "1">>, <<"+", "2">>,
      <<"a", "l", "l">>, <<"A", "L", "L">>, <<"A", "l", "l">>, <<" ", "a", "l", "l">> }

\* (selection, max_num) pairs of the documentation's examples
ExampleCalls ==
    { <<(<<"1", ",", "3", "-", "5", ",", "7">>), 7>>,
      <<(<<"1", ",", "3", ",", "5">>), 7>>,
      <<(<<"0", "-", "2">>), 5>>,
      <<(<<"9">>), 5>> }

ParseInputs == (TextsUpTo(MaxLen) \cup ExampleTexts) \X (1..MaxNum) \cup ExampleCalls

DbNames == <<"a", "b", "c", "d", "e", "f", "g">>

\* the result of get_databases: distinct names
OfferedLists == {SubSeq(DbNames, 1, n) : n \in 0..MaxOffered}

\* rich's Prompt.ask(..., default=""): an empty line gives the default, any
\* other answer is returned with its surrounding white space dropped
PromptAsk(typed) == IF typed = <<>> THEN <<>> ELSE Strip(typed)

\* [databases[i-1] for i in selected_indices]
SelectedDbs(dbs, indices) == [k \in 1..Len(indices) |-> dbs[(indices[k] - 1) + 1]]

\* a direct call parse_selection(selection, max_num)
ParseSelectionCall ==
    /\ sel_pc = "call"
    /\ parsed' = ParseSelection(selection, max_num)
    /\ sel_pc' = "called"
    /\ UNCHANGED <<offered, selection, max_num, confirmed, sel_return, err_msgs>>
    /\ UNCHANGED <<envVars, bkVars, rsVars>>

\* select_databases, up to the loop: "if not databases: return []"
SelectEnter ==
    /\ sel_pc = "enter"
    /\ IF offered = <<>>
       THEN sel_pc' = "returned" /\ sel_return' = <<>>
       ELSE sel_pc' = "prompt" /\ UNCHANGED sel_return
    /\ UNCHANGED <<offered, selection, max_num, parsed, confirmed, err_msgs>>
    /\ UNCHANGED <<envVars, bkVars, rsVars>>

\* selection = Prompt.ask(...): the operator answers
SelectPrompt ==
    /\ sel_pc = "prompt"
    /\ \E typed \in TextsUpTo(MaxLen) \cup ExampleTexts : selection' = PromptAsk(typed)
    /\ sel_pc' = "answered"
    /\ parsed' = NoCall
    /\ err_msgs' = FALSE
    /\ confirmed' = FALSE
    /\ UNCHANGED <<offered, max_num, sel_return>>
    /\ UNCHANGED <<envVars, bkVars, rsVars>>

\* the exception parse_selection raises for an error of each kind: int() and
\* the two "raise ValueError(...)"
Raises(kind) == "ValueError"

\* an except clause that names IndexError alone
Caught_IndexErrorOnly == {"IndexError"}

\* "except (ValueError, IndexError) as e" of select_databases
Caught == {"ValueError", "IndexError"}

\* parse_selection raised: the except clause reports the error and the loop
\* goes round, or the exception leaves select_databases
ParseFailed(r) ==
    IF Raises(r.kind) \in Caught
    THEN [pc |-> "prompt", ret |-> NotReturned, parsed |-> r, err |-> TRUE]
    ELSE [pc |-> "raised", ret |-> NotReturned, parsed |-> r, err |-> FALSE]

\* SelectIteration without the "if not selection: return []" test
SelectIteration_NoEmptyTest(sel, yes) ==
    IF Lower(sel) = <<"a", "l", "l">>
    THEN [pc |-> "returned", ret |-> offered, parsed |-> NoCall, err |-> FALSE]
    ELSE LET r == ParseSelection(sel, Len(offered))
         IN  IF ~r.ok
             THEN ParseFailed(r)
             ELSE IF yes
             THEN [pc |-> "returned", ret |-> SelectedDbs(offered, r.indices),
                   parsed |-> r, err |-> FALSE]
             ELSE [pc |-> "prompt", ret |-> NotReturned, parsed |-> r, err |-> FALSE]

\* the rest of one iteration of "while True": the empty and 'all' tests, the
\* parse, the confirmation, the except clause
SelectIteration(sel, yes) ==
    IF sel = <<>>
    THEN [pc |-> "returned", ret |-> <<>>, parsed |-> NoCall, err |-> FALSE]
    ELSE IF Lower(sel) = <<"a", "l", "l">>
    THEN [pc |-> "returned", ret |-> offered, parsed |-> NoCall, err |-> FALSE]
    ELSE LET r == ParseSelection(sel, Len(offered))
         IN  IF ~r.ok
             THEN ParseFailed(r)
             ELSE IF yes
             THEN [pc |-> "returned", ret |-> SelectedDbs(offered, r.indices),
                   parsed |-> r, err |-> FALSE]
             ELSE [pc |-> "prompt", ret |-> NotReturned, parsed |-> r, err |-> FALSE]

\* The iteration after the answer. Going round the loop, selection is dead until
\* the next answer overwrites it: it is kept as <<>> while the prompt waits.
SelectProcess ==
    /\ sel_pc = "answered"
    /\ \E yes \in BOOLEAN :
         LET it == SelectIteration(selection, yes)
         IN  /\ confirmed' = (yes /\ it.parsed # NoCall /\ it.parsed.ok)
             /\ parsed' = it.parsed
             /\ sel_pc' = it.pc
             /\ sel_return' = it.ret
             /\ err_msgs' = it.err
             /\ max_num' = IF it.parsed = NoCall THEN max_num ELSE Len(offered)
             /\ selection' = IF it.pc = "prompt" THEN <<>> ELSE selection
    /\ UNCHANGED offered
    /\ UNCHANGED <<envVars, bkVars, rsVars>>

\* ------------------------------------------------------------------ paths
\* pathlib: Path.parent, Path.name, the / operator
Parent(p) == SubSeq(p, 1, Len(p) - 1)

Name(p) == p[Len(p)]

Join(dir, name) == Append(dir, name)

\* the texts '' , '.zip', '.tar', '.tar.gz', as dot-separated segments
EmptyText == <<"">>
DotZip == <<"", "zip">>
DotTar == <<"", "tar">>
DotTarGz == <<"", "tar", "gz">>

\* PurePath.suffix: the text from the last dot of the name on, '' when the
\* name has no dot, starts with its only dot, or ends with a dot
Suffix(name) ==
    LET n == Len(name)
    IN  IF n >= 2 /\ name[n] # "" /\ (n > 2 \/ name[1] # "")
        THEN <<"", name[n]>>
        ELSE EmptyText

\* PurePath.with_suffix(suffix), for a suffix that starts with a dot
WithSuffix(name, suffix) ==
    (IF Suffix(name) = EmptyText THEN name ELSE SubSeq(name, 1, Len(name) - 1))
        \o Tail(suffix)

\* str(path).endswith('.tar.gz')
EndsWithTarGz(p) ==
    LET name == Name(p)
        n == Len(name)
    IN  n >= 3 /\ name[n - 1] = "tar" /\ name[n] = "gz"

\* text + '.tar.gz'
PlusDotTarGz(text) == text \o Tail(DotTarGz)

\* datetime.now().strftime("%Y%m%d_%H%M%S") inside "mysql_backup_..."
StampedName(t) ==
    CASE t = 1 -> "mysql_backup_T1"
      [] t = 2 -> "mysql_backup_T2"
      [] t = 3 -> "mysql_backup_T3"
      [] OTHER -> "mysql_backup_T4"

\* Path.mkdir(parents=True, exist_ok=True)
MkdirParents(ds, p) == ds \cup {SubSeq(p, 1, k) : k \in 0..Len(p)}

\* sys.exit(code), and the end of the command with status 0
NotExited == [exited |-> FALSE, code |-> 0, at |-> "none"]
Exit(code, at) == [exited |-> TRUE, code |-> code, at |-> at]

NoPathGiven == [given |-> FALSE, path |-> <<>>]
NoName == [given |-> FALSE, name |-> EmptyText]
NotYet == [returned |-> FALSE, path |-> NoPathGiven]
Returned(p) == [returned |-> TRUE, path |-> [given |-> TRUE, path |-> p]]
ReturnedNone == [returned |-> TRUE, path |-> NoPathGiven]

\* ------------------------------------------------------------------ files
NoFiles == [q \in {} |-> 0]

Exists(files, p) == p \in DOMAIN files

WriteFile(files, p, data) ==
    [q \in DOMAIN files \cup {p} |-> IF q = p THEN data ELSE files[q]]

Unlink(files, p) == [q \in DOMAIN files \ {p} |-> files[q]]

RECURSIVE UnlinkAll(_, _)
UnlinkAll(files, ps) ==
    IF ps = <<>> THEN files ELSE UnlinkAll(Unlink(files, Head(ps)), Tail(ps))

\* what mysqldump leaves in its output file
Dump(db) == [kind |-> "dump", db |-> db, complete |-> TRUE, members |-> <<>>]
PartialDump(db) == [kind |-> "dump", db |-> db, complete |-> FALSE, members |-> <<>>]

\* a tar.gz archive: its members [name, data] in the order they were added, a
\* member's name being a path relative to the archive's root
Archive(members, complete) ==
    [kind |-> "tar", db |-> "", complete |-> complete, members |-> members]

\* ------------------------------------------------------------------ MySQLBackupTool
\* _setup_output_path, lines 46-62: output_dir and custom_filename
SetupOutputPath(op, t) ==
    IF ~op.given
    THEN [output_dir |-> <<(<<StampedName(t)>>)>>, custom_filename |-> NoName]
    ELSE IF Suffix(Name(op.path)) \in {DotZip, DotTar, DotTarGz}
    THEN [output_dir |-> Parent(op.path),
          custom_filename |-> [given |-> TRUE, name |-> Name(op.path)]]
    ELSE [output_dir |-> op.path, custom_filename |-> NoName]

\* compress_backups, lines 286-297: the path of the archive
TarFile(dir, custom, t) ==
    IF custom.given /\ custom.name # EmptyText
    THEN LET tar_file == Join(dir, custom.name)
         IN  IF ~EndsWithTarGz(tar_file)
             THEN IF Suffix(Name(tar_file)) \in {DotZip, DotTar}
                  THEN Join(dir, WithSuffix(Name(tar_file), DotTarGz))
                  ELSE Join(dir, WithSuffix(Name(tar_file),
                                            PlusDotTarGz(Suffix(Name(tar_file)))))
             ELSE tar_file
    ELSE Join(dir, <<StampedName(t), "tar", "gz">>)

\* sql_file = self.output_dir / f"{db_name}.sql"
SqlFile(dir, db) == Join(dir, <<db, "sql">>)

\* MySQLBackupTool.__init__: _setup_output_path and the mkdir
Construct ==
    /\ bk_pc = "new"
    /\ \E t \in now..MaxClock :
         LET r == SetupOutputPath(output_path, t)
         IN  /\ now' = t
             /\ output_dir' = r.output_dir
             /\ custom_filename' = r.custom_filename
             /\ dirs' = MkdirParents(dirs, r.output_dir)
    /\ bk_pc' = "constructed"
    /\ UNCHANGED <<cmd, exit_status, fs, output_path, databases, bk_i, timestamp, backup_files,
                   dump_log, compress_log, bk_return>>
    /\ UNCHANGED <<selVars, rsVars>>

\* backup, lines 580-583: "if not backup_tool.connect(): sys.exit(1)"
BackupConnect ==
    /\ bk_pc = "constructed"
    /\ \E connected \in BOOLEAN :
         IF connected
         THEN bk_pc' = "connected" /\ UNCHANGED exit_status
         ELSE bk_pc' = "exited" /\ exit_status' = Exit(1, "connect")
    /\ UNCHANGED <<cmd, now, fs, dirs>>
    /\ UNCHANGED <<output_path, output_dir, custom_filename, databases, bk_i, timestamp,
                   backup_files, dump_log, compress_log, bk_return>>
    /\ UNCHANGED <<selVars, rsVars>>

\* backup, lines 585-598: get_databases and "sys.exit(0)" when it finds none,
\* select_databases (its result is databases) and "sys.exit(0)" when it is empty
BackupSelect ==
    /\ bk_pc = "connected"
    /\ \E found \in BOOLEAN :
         IF ~found
         THEN bk_pc' = "exited" /\ exit_status' = Exit(0, "nodatabases")
         ELSE IF databases = <<>>
         THEN bk_pc' = "exited" /\ exit_status' = Exit(0, "noselection")
         ELSE bk_pc' = "ready" /\ UNCHANGED exit_status
    /\ UNCHANGED <<cmd, now, fs, dirs>>
    /\ UNCHANGED <<output_path, output_dir, custom_filename, databases, bk_i, timestamp,
                   backup_files, dump_log, compress_log, bk_return>>
    /\ UNCHANGED <<selVars, rsVars>>

\* backup, lines 600-610: "if backup_file: ... else: sys.exit(1)", and the
\* command's end with status 0
BackupExit ==
    /\ bk_pc = "done"
    /\ ~exit_status.exited
    /\ exit_status' = IF bk_return.path.given THEN Exit(0, "end") ELSE Exit(1, "end")
    /\ UNCHANGED <<cmd, now, fs, dirs>>
    /\ UNCHANGED <<bkVars, selVars, rsVars>>

\* create_backup up to its loop: "if not databases: return None", the timestamp
CreateBackupEnter ==
    /\ bk_pc = "ready"
    /\ IF databases = <<>>
       THEN /\ bk_pc' = "done"
            /\ bk_return' = ReturnedNone
            /\ UNCHANGED <<now, timestamp>>
       ELSE /\ bk_pc' = "dumping"
            /\ \E t \in now..MaxClock : now' = t /\ timestamp' = t
            /\ UNCHANGED bk_return
    /\ bk_i' = 1
    /\ backup_files' = <<>>
    /\ UNCHANGED <<cmd, exit_status, fs, dirs, output_path, output_dir, custom_filename, databases,
                   dump_log, compress_log>>
    /\ UNCHANGED <<selVars, rsVars>>

\* The outcomes of one dump_database call:
\*   "ok"       mysqldump exits with 0
\*   "nonzero"  mysqldump exits with another status: the partial file is removed
\*   "notfound" subprocess.run raises FileNotFoundError, the output file being open
\*   "openfail" open(output_file, 'w') raises: no file is made
DumpOutcomes == {"ok", "nonzero", "notfound", "openfail"}

\* dump_database without "if output_file.exists(): output_file.unlink()"
DumpDatabase_KeepsPartial(files, db, output_file, outcome) ==
    CASE outcome = "ok" -> [ok |-> TRUE, files |-> WriteFile(files, output_file, Dump(db))]
      [] outcome = "nonzero" ->
            [ok |-> FALSE, files |-> WriteFile(files, output_file, PartialDump(db))]
      [] outcome = "notfound" ->
            [ok |-> FALSE, files |-> WriteFile(files, output_file, PartialDump(db))]
      [] outcome = "openfail" -> [ok |-> FALSE, files |-> files]

\* dump_database(db_name, output_file): [ok, files]
DumpDatabase(files, db, output_file, outcome) ==
    CASE outcome = "ok" -> [ok |-> TRUE, files |-> WriteFile(files, output_file, Dump(db))]
      [] outcome = "nonzero" ->
            LET written == WriteFile(files, output_file, PartialDump(db))
            IN  [ok |-> FALSE,
                 files |-> IF Exists(written, output_file) THEN Unlink(written, output_file)
                           ELSE written]
      [] outcome = "notfound" ->
            [ok |-> FALSE, files |-> WriteFile(files, output_file, PartialDump(db))]
      [] outcome = "openfail" -> [ok |-> FALSE, files |-> files]

\* one iteration of create_backup's "for db_name in databases"
DumpNext ==
    /\ bk_pc = "dumping"
    /\ bk_i <= Len(databases)
    /\ \E outcome \in DumpOutcomes :
         LET db == databases[bk_i]
             sql_file == SqlFile(output_dir, db)
             r == DumpDatabase(fs, db, sql_file, outcome)
         IN  /\ fs' = r.files
             /\ backup_files' = IF r.ok THEN Append(backup_files, sql_file) ELSE backup_files
             /\ dump_log' = Append(dump_log, [db |-> db, ok |-> r.ok, outcome |-> outcome])
    /\ bk_i' = bk_i + 1
    /\ UNCHANGED <<cmd, exit_status, now, dirs, bk_pc, output_path, output_dir, custom_filename,
                   databases, timestamp, compress_log, bk_return>>
    /\ UNCHANGED <<selVars, rsVars>>

\* The outcomes of one compress_backups call over n files:
\*   [at |-> "open"]            tarfile.open raises: no archive is made
\*   [at |-> "add", k |-> k]    tf.add raises at the k-th file
\*   [at |-> "unlink", k |-> k] the k-th sql_file.unlink() raises
\*   [at |-> "none"]            nothing raises
CompressOutcomes(n) ==
    {[at |-> "open", k |-> 0], [at |-> "none", k |-> 0]}
        \cup {[at |-> a, k |-> k] : a \in {"add", "unlink"}, k \in 1..n}

\* Members with tf.add(sql_file): the member is named by the file's whole path
Members_WholePath(files, ps) == [k \in 1..Len(ps) |-> [name |-> ps[k], data |-> files[ps[k]]]]

\* tf.add(sql_file, arcname=sql_file.name) for each of the files
Members(files, ps) == [k \in 1..Len(ps) |-> [name |-> <<Name(ps[k])>>, data |-> files[ps[k]]]]

\* compress_backups with the clean-up loop ahead of the archive
CompressBackups_UnlinkFirst(files, ps, tar_file, outcome) ==
    CASE outcome.at = "open" \/ outcome.at = "add" ->
            [path |-> NoPathGiven, files |-> UnlinkAll(files, ps)]
      [] outcome.at = "unlink" ->
            [path |-> NoPathGiven, files |-> UnlinkAll(files, SubSeq(ps, 1, outcome.k - 1))]
      [] OTHER ->
            [path |-> [given |-> TRUE, path |-> tar_file],
             files |-> UnlinkAll(WriteFile(files, tar_file, Archive(Members(files, ps), TRUE)),
                                 ps)]

\* compress_backups, lines 299-312: [path, files]
CompressBackups(files, ps, tar_file, outcome) ==
    CASE outcome.at = "open" -> [path |-> NoPathGiven, files |-> files]
      [] outcome.at = "add" ->
            [path |-> NoPathGiven,
             files |-> WriteFile(files, tar_file,
                                 Archive(Members(files, SubSeq(ps, 1, outcome.k - 1)), FALSE))]
      [] outcome.at = "unlink" ->
            [path |-> NoPathGiven,
             files |-> UnlinkAll(WriteFile(files, tar_file, Archive(Members(files, ps), TRUE)),
                                 SubSeq(ps, 1, outcome.k - 1))]
      [] OTHER ->
            [path |-> [given |-> TRUE, path |-> tar_file],
             files |-> UnlinkAll(WriteFile(files, tar_file, Archive(Members(files, ps), TRUE)),
                                 ps)]

\* create_backup after its loop, lines 240-244
CreateBackupFinish ==
    /\ bk_pc = "dumping"
    /\ bk_i > Len(databases)
    /\ IF backup_files # <<>>
       THEN \E outcome \in CompressOutcomes(Len(backup_files)) :
              LET tar_file == TarFile(output_dir, custom_filename, timestamp)
                  r == CompressBackups(fs, backup_files, tar_file, outcome)
              IN  /\ fs' = r.files
                  /\ bk_return' = [returned |-> TRUE, path |-> r.path]
                  /\ compress_log' = Append(compress_log,
                                            [files |-> backup_files, tar_file |-> tar_file,
                                             outcome |-> outcome, before |-> fs])
       ELSE /\ bk_return' = ReturnedNone
            /\ UNCHANGED <<fs, compress_log>>
    /\ bk_pc' = "done"
    /\ UNCHANGED <<cmd, exit_status, now, dirs, output_path, output_dir, custom_filename, databases,
                   bk_i, timestamp, backup_files, dump_log>>
    /\ UNCHANGED <<selVars, rsVars>>

NextBackup ==
    \/ Construct
    \/ BackupConnect
    \/ BackupSelect
    \/ CreateBackupEnter
    \/ DumpNext
    \/ CreateBackupFinish
    \/ BackupExit

\* ------------------------------------------------------------------ MySQLRestoreTool
\* PurePath.stem: the name without its suffix
Stem(name) == IF Suffix(name) = EmptyText THEN name ELSE SubSeq(name, 1, Len(name) - 1)

\* database_name = sql_file.stem (the dump files drawn have stems without a dot)
DatabaseName(sql_file) == Stem(Name(sql_file))[1]

\* datetime.now().strftime('%Y%m%d_%H%M%S') inside "restore_..."
RestoreDirName(t) ==
    CASE t = 1 -> "restore_T1"
      [] t = 2 -> "restore_T2"
      [] t = 3 -> "restore_T3"
      [] OTHER -> "restore_T4"

\* extract_dir = tar_path.parent / f"restore_{...}"
ExtractDir(tar_path, t) == Join(Parent(tar_path), <<RestoreDirName(t)>>)

\* tf.extractall(extract_dir): every member is written under extract_dir
RECURSIVE ExtractAll(_, _, _)
ExtractAll(files, dir, members) ==
    IF members = <<>> THEN files
    ELSE ExtractAll(WriteFile(files, dir \o Head(members).name, Head(members).data),
                    dir, Tail(members))

\* the directories extractall makes for the members
ExtractedDirs(ds, dir, members) ==
    ds \cup UNION {MkdirParents({}, dir \o Parent(members[k].name)) : k \in 1..Len(members)}

\* extract_dir.glob("*.sql"): the entries of the directory itself whose name ends in .sql
Glob(files, dir) ==
    {q \in DOMAIN files :
        /\ Len(q) = Len(dir) + 1
        /\ Parent(q) = dir
        /\ Len(Name(q)) >= 2
        /\ Name(q)[Len(Name(q))] = "sql"}

\* the orders a directory listing can come in
Orderings(S) == {q \in [1..Cardinality(S) -> S] : \A x \in S : \E k \in 1..Cardinality(S) : q[k] = x}

\* shutil.rmtree(dir, ignore_errors=True)
IsUnder(q, dir) == Len(q) >= Len(dir) /\ SubSeq(q, 1, Len(dir)) = dir

RmTree(files, dir) == [q \in {x \in DOMAIN files : ~IsUnder(x, dir)} |-> files[q]]

RmTreeDirs(ds, dir) == {d \in ds : ~IsUnder(d, dir)}

NoTally == [printed |-> FALSE, succeeded |-> 0, attempted |-> 0]
NotReturnedYet == [returned |-> FALSE, value |-> FALSE]
ReturnedValue(b) == [returned |-> TRUE, value |-> b]

\* restore_backup, lines 456-457: self.connect()
RestoreConnect ==
    /\ rs_pc = "start"
    /\ \E connected \in BOOLEAN :
         IF connected
         THEN rs_pc' = "extract" /\ UNCHANGED rs_return
         ELSE rs_pc' = "done" /\ rs_return' = ReturnedValue(FALSE)
    /\ UNCHANGED <<tar_file_path, server, sql_files, rs_i, success_count, ops, tally>>
    /\ UNCHANGED <<selVars, envVars, bkVars>>

\* extract_backup(tar_file_path): [found, files, dirs, listing], listing being
\* the set of dump files the glob finds
ExtractBackup(files, ds, tar_path, t) ==
    IF ~Exists(files, tar_path)
    THEN [found |-> FALSE, files |-> files, dirs |-> ds, listing |-> {}]
    ELSE LET extract_dir == ExtractDir(tar_path, t)
             made == ds \cup {extract_dir}
             archive == files[tar_path]
         IN  IF archive.kind # "tar"
             THEN [found |-> FALSE, files |-> files, dirs |-> made, listing |-> {}]
             ELSE LET extracted == ExtractAll(files, extract_dir, archive.members)
                      newdirs == ExtractedDirs(made, extract_dir, archive.members)
                  IN  IF ~archive.complete
                      THEN [found |-> FALSE, files |-> extracted, dirs |-> newdirs,
                            listing |-> {}]
                      ELSE [found |-> Glob(extracted, extract_dir) # {}, files |-> extracted,
                            dirs |-> newdirs, listing |-> Glob(extracted, extract_dir)]

\* restore_backup, lines 459-462: extract_backup and "if not sql_files: return False"
RestoreExtract ==
    /\ rs_pc = "extract"
    /\ \E t \in now..MaxClock :
         LET r == ExtractBackup(fs, dirs, tar_file_path, t)
         IN  /\ now' = t
             /\ fs' = r.files
             /\ dirs' = r.dirs
             /\ IF r.found
                THEN /\ sql_files' \in Orderings(r.listing)
                     /\ rs_pc' = "confirm"
                     /\ UNCHANGED rs_return
                ELSE /\ sql_files' = <<>>
                     /\ rs_pc' = "done"
                     /\ rs_return' = ReturnedValue(FALSE)
    /\ UNCHANGED <<cmd, exit_status, tar_file_path, server, rs_i, success_count, ops, tally>>
    /\ UNCHANGED <<selVars, bkVars>>

\* restore_backup, lines 464-486: the table of the dump files found (it only
\* reads the server) and "Do you want to proceed with the restore?"
RestoreConfirm ==
    /\ rs_pc = "confirm"
    /\ \E proceed \in BOOLEAN :
         IF proceed
         THEN /\ rs_pc' = "loop"
              /\ rs_i' = 1
              /\ success_count' = 0
              /\ UNCHANGED rs_return
         ELSE /\ rs_pc' = "done"
              /\ rs_return' = ReturnedValue(FALSE)
              /\ UNCHANGED <<rs_i, success_count>>
    /\ UNCHANGED <<tar_file_path, server, sql_files, ops, tally>>
    /\ UNCHANGED <<selVars, envVars, bkVars>>

Op(op, db, res) == [op |-> op, db |-> db, res |-> res]

\* What the surroundings do in one iteration of the loop:
\*   query    whether "SHOW DATABASES" answers (database_exists returns False when not)
\*   action   the operator's answer at the conflict prompt
\*   drop, create, restore   whether the server and the mysql client let the step succeed
Surroundings ==
    [query : BOOLEAN, action : {"overwrite", "skip", "cancel"},
     drop : BOOLEAN, create : BOOLEAN, restore : BOOLEAN]

\* database_exists(database_name)
DatabaseExists(srv, db, e) == e.query /\ db \in DOMAIN srv

\* drop_database(database_name): [ok, server]
DropDatabase(srv, db, e) ==
    IF e.drop /\ db \in DOMAIN srv
    THEN [ok |-> TRUE, server |-> [d \in DOMAIN srv \ {db} |-> srv[d]]]
    ELSE [ok |-> FALSE, server |-> srv]

\* create_database(database_name): [ok, server]
CreateDatabase(srv, db, e) ==
    IF e.create /\ db \notin DOMAIN srv
    THEN [ok |-> TRUE, server |-> [d \in DOMAIN srv \cup {db} |-> IF d = db THEN "empty" ELSE srv[d]]]
    ELSE [ok |-> FALSE, server |-> srv]

\* restore_database(sql_file): [ok, server]; the mysql client replays the dump
\* into the database, which must be there
RestoreDatabase(srv, db, e) ==
    IF db \notin DOMAIN srv THEN [ok |-> FALSE, server |-> srv]
    ELSE IF e.restore THEN [ok |-> TRUE, server |-> [srv EXCEPT ![db] = "restored"]]
    ELSE [ok |-> FALSE, server |-> [srv EXCEPT ![db] = "partial"]]

OkText(b) == IF b THEN "ok" ELSE "failed"

\* lines 515-517: "if self.restore_database(sql_file): success_count += 1"
RestoreStep(srv, db, e, log, count) ==
    LET r == RestoreDatabase(srv, db, e)
    IN  [server |-> r.server, ops |-> Append(log, Op("restore", db, OkText(r.ok))),
         count |-> IF r.ok THEN count + 1 ELSE count, stop |-> FALSE]

\* create_database with "break" in place of "continue" when it fails
CreateStep_BreakOnFailure(srv, db, e, log, count) ==
    LET c == CreateDatabase(srv, db, e)
        log2 == Append(log, Op("create", db, OkText(c.ok)))
    IN  IF ~c.ok THEN [server |-> c.server, ops |-> log2, count |-> count, stop |-> TRUE]
        ELSE RestoreStep(c.server, db, e, log2, count)

\* lines 510-513 and 508-509: create_database, "continue" when it fails, else the restore
CreateStep(srv, db, e, log, count) ==
    LET c == CreateDatabase(srv, db, e)
        log2 == Append(log, Op("create", db, OkText(c.ok)))
    IN  IF ~c.ok THEN [server |-> c.server, ops |-> log2, count |-> count, stop |-> FALSE]
        ELSE RestoreStep(c.server, db, e, log2, count)

\* the overwrite branch without "if not self.drop_database(...): continue"
OverwriteStep_DropUnchecked(srv, db, e, log, count) ==
    LET d == DropDatabase(srv, db, e)
        log2 == Append(log, Op("drop", db, OkText(d.ok)))
    IN  CreateStep(d.server, db, e, log2, count)

\* lines 505-509: the overwrite branch
OverwriteStep(srv, db, e, log, count) ==
    LET d == DropDatabase(srv, db, e)
        log2 == Append(log, Op("drop", db, OkText(d.ok)))
    IN  IF ~d.ok THEN [server |-> d.server, ops |-> log2, count |-> count, stop |-> FALSE]
        ELSE CreateStep(d.server, db, e, log2, count)

\* one iteration with "continue" in place of "break" at the answer cancel
RestoreOne_CancelContinues(srv, sql_file, e, log, count) ==
    LET db == DatabaseName(sql_file)
        exists == DatabaseExists(srv, db, e)
        log1 == Append(log, Op("exists", db, IF ~e.query THEN "error"
                                             ELSE IF exists THEN "yes" ELSE "no"))
    IN  IF exists
        THEN LET log2 == Append(log1, Op("prompt", db, e.action))
             IN  CASE e.action = "cancel" ->
                        [server |-> srv, ops |-> log2, count |-> count, stop |-> FALSE]
                   [] e.action = "skip" ->
                        [server |-> srv, ops |-> log2, count |-> count, stop |-> FALSE]
                   [] OTHER -> OverwriteStep(srv, db, e, log2, count)
        ELSE CreateStep(srv, db, e, log1, count)

\* one iteration of "for sql_file in sql_files", lines 487-517
RestoreOne(srv, sql_file, e, log, count) ==
    LET db == DatabaseName(sql_file)
        exists == DatabaseExists(srv, db, e)
        log1 == Append(log, Op("exists", db, IF ~e.query THEN "error"
                                             ELSE IF exists THEN "yes" ELSE "no"))
    IN  IF exists
        THEN LET log2 == Append(log1, Op("prompt", db, e.action))
             IN  CASE e.action = "cancel" ->
                        [server |-> srv, ops |-> log2, count |-> count, stop |-> TRUE]
                   [] e.action = "skip" ->
                        [server |-> srv, ops |-> log2, count |-> count, stop |-> FALSE]
                   [] OTHER -> OverwriteStep(srv, db, e, log2, count)
        ELSE CreateStep(srv, db, e, log1, count)

\* the loop with "return False" in place of "break" at the answer cancel
RestoreNext_CancelReturns ==
    /\ rs_pc = "loop"
    /\ rs_i <= Len(sql_files)
    /\ \E e \in Surroundings :
         LET r == RestoreOne(server, sql_files[rs_i], e, ops, success_count)
         IN  /\ server' = r.server
             /\ ops' = r.ops
             /\ success_count' = r.count
             /\ rs_pc' = IF r.stop THEN "done" ELSE "loop"
             /\ rs_return' = IF r.stop THEN ReturnedValue(FALSE) ELSE rs_return
    /\ rs_i' = rs_i + 1
    /\ UNCHANGED <<tar_file_path, sql_files, tally>>
    /\ UNCHANGED <<selVars, envVars, bkVars>>

RestoreNext ==
    /\ rs_pc = "loop"
    /\ rs_i <= Len(sql_files)
    /\ \E e \in Surroundings :
         LET r == RestoreOne(server, sql_files[rs_i], e, ops, success_count)
         IN  /\ server' = r.server
             /\ ops' = r.ops
             /\ success_count' = r.count
             /\ rs_pc' = IF r.stop THEN "cleanup" ELSE "loop"
    /\ rs_i' = rs_i + 1
    /\ UNCHANGED <<tar_file_path, sql_files, tally, rs_return>>
    /\ UNCHANGED <<selVars, envVars, bkVars>>

\* the loop ran out of dump files
RestoreLoopEnd ==
    /\ rs_pc = "loop"
    /\ rs_i > Len(sql_files)
    /\ rs_pc' = "cleanup"
    /\ UNCHANGED <<tar_file_path, server, sql_files, rs_i, success_count, ops, tally,
                   rs_return>>
    /\ UNCHANGED <<selVars, envVars, bkVars>>

\* restore_backup, lines 519-524: the clean-up, the tally, the return value
RestoreFinish ==
    /\ rs_pc = "cleanup"
    /\ fs' = RmTree(fs, Parent(sql_files[1]))
    /\ dirs' = RmTreeDirs(dirs, Parent(sql_files[1]))
    /\ tally' = [printed |-> TRUE, succeeded |-> success_count, attempted |-> Len(sql_files)]
    /\ rs_return' = ReturnedValue(success_count > 0)
    /\ rs_pc' = "done"
    /\ UNCHANGED <<cmd, exit_status, now, tar_file_path, server, sql_files, rs_i, success_count, ops>>
    /\ UNCHANGED <<selVars, bkVars>>

\* restore, lines 659-665: "if success: ... else: sys.exit(1)", and the
\* command's end with status 0
RestoreExit ==
    /\ rs_pc = "done"
    /\ ~exit_status.exited
    /\ exit_status' = IF rs_return.value THEN Exit(0, "end") ELSE Exit(1, "end")
    /\ UNCHANGED <<cmd, now, fs, dirs>>
    /\ UNCHANGED <<rsVars, selVars, bkVars>>

NextRestore ==
    \/ RestoreConnect
    \/ RestoreExtract
    \/ RestoreConfirm
    \/ RestoreNext
    \/ RestoreLoopEnd
    \/ RestoreFinish
    \/ RestoreExit

\* ------------------------------------------------------------------ inputs
\* the sequences without repetition of at most n of the names
RECURSIVE DistinctSeqs(_, _)
DistinctSeqs(names, n) ==
    IF n = 0 THEN {<<>>}
    ELSE {<<>>} \cup {<<x>> \o q : x \in names, q \in DistinctSeqs(names, n - 1)}

NoRepeat(q) == \A i, j \in 1..Len(q) : q[i] = q[j] => i = j

\* what create_backup is given: databases of the server, each once
DatabaseLists == {q \in DistinctSeqs({"a", "b", "c"}, MaxDbs) : NoRepeat(q)}

\* -o arguments of the documentation, and a directory with a dot in its name
DocOutputPaths ==
    { <<(<<"backups">>)>>,
      <<(<<"server_backup", "zip">>)>>,
      <<(<<"backups">>), (<<"myapp", "tar">>)>>,
      <<(<<"backup", "tar", "gz">>)>> }

\* file names of at most n segments: not empty, not "." or "..", at most one leading dot
SegmentTexts == {"backup", "zip", "tar", "gz", ""}

FileNames(n) ==
    {q \in UNION {[1..k -> SegmentTexts] : k \in 1..n} :
        /\ \E i \in 1..Len(q) : q[i] # ""
        /\ ~(Len(q) >= 2 /\ q[1] = "" /\ q[2] = "")}

AllOutputPaths(n) == {Join(d, f) : d \in {<<>>, <<(<<"backups">>)>>}, f \in FileNames(n)}

InitIdleSelect ==
    /\ sel_pc = "idle"
    /\ offered = <<>>
    /\ selection = <<>>
    /\ max_num = 0
    /\ parsed = NoCall
    /\ confirmed = FALSE
    /\ sel_return = NotReturned
    /\ err_msgs = FALSE

InitEnv ==
    /\ now = 1
    /\ exit_status = NotExited
    /\ fs = NoFiles
    /\ dirs = {<<>>}

InitIdleBackup ==
    /\ bk_pc = "idle"
    /\ output_path = NoPathGiven
    /\ output_dir = <<>>
    /\ custom_filename = NoName
    /\ databases = <<>>
    /\ bk_i = 0
    /\ timestamp = 0
    /\ backup_files = <<>>
    /\ dump_log = <<>>
    /\ compress_log = <<>>
    /\ bk_return = NotYet

InitBackup(paths, lists) ==
    /\ bk_pc = "new"
    /\ output_path \in {NoPathGiven} \cup {[given |-> TRUE, path |-> p] : p \in paths}
    /\ databases \in lists
    /\ output_dir = <<>>
    /\ custom_filename = NoName
    /\ bk_i = 0
    /\ timestamp = 0
    /\ backup_files = <<>>
    /\ dump_log = <<>>
    /\ compress_log = <<>>
    /\ bk_return = NotYet

InitIdleRestore ==
    /\ rs_pc = "idle"
    /\ tar_file_path = <<>>
    /\ server = NoFiles
    /\ sql_files = <<>>
    /\ rs_i = 0
    /\ success_count = 0
    /\ ops = <<>>
    /\ tally = NoTally
    /\ rs_return = NotReturnedYet

\* the archive restore_backup is pointed at, and the directory it lies in
BackupsDir == <<(<<"backups">>)>>
NightlyArchive == Join(BackupsDir, <<"nightly", "tar", "gz">>)

Member(name, db) == [name |-> name, data |-> Dump(db)]

\* what the archive holds: dumps a.sql, b.sql and c.sql as create_backup packs them,
\* and archives with a member that is no dump or lies in a subdirectory
ArchiveContents ==
    { <<>>,
      <<Member(<<(<<"a", "sql">>)>>, "a")>>,
      <<Member(<<(<<"b", "sql">>)>>, "b")>>,
      <<Member(<<(<<"a", "sql">>)>>, "a"), Member(<<(<<"b", "sql">>)>>, "b")>>,
      <<Member(<<(<<"a", "sql">>)>>, "a"), Member(<<(<<"b", "sql">>)>>, "b"),
        Member(<<(<<"c", "sql">>)>>, "c")>>,
      <<Member(<<(<<"readme", "txt">>)>>, "")>>,
      <<Member(<<(<<"a", "sql">>)>>, "a"), Member(<<(<<"readme", "txt">>)>>, ""),
        Member(<<(<<"sub">>), (<<"b", "sql">>)>>, "b")>> }

\* the files a run can find on disk: nothing, the archive (whole or cut short),
\* and with it the extraction directory restore_T1 of a run of second 1 that
\* ended without removing it, holding c.sql
StartingDisks ==
    {NoFiles}
    \cup {WriteFile(NoFiles, NightlyArchive, Archive(m, c)) :
            m \in ArchiveContents, c \in BOOLEAN}
    \cup {WriteFile(WriteFile(NoFiles, NightlyArchive, Archive(m, TRUE)),
                    Join(ExtractDir(NightlyArchive, 1), <<"c", "sql">>), Dump("c")) :
            m \in ArchiveContents}

\* the databases of the server before the run
StartingServers == {[d \in S |-> "old"] : S \in SUBSET {"a", "b", "c"}}

InitRestore ==
    /\ cmd = "restore"
    /\ now = 1
    /\ exit_status = NotExited
    /\ fs \in StartingDisks
    /\ dirs = {<<>>, BackupsDir}
                \cup (IF \E q \in DOMAIN fs : IsUnder(q, ExtractDir(NightlyArchive, 1))
                      THEN {ExtractDir(NightlyArchive, 1)} ELSE {})
    /\ InitIdleSelect
    /\ InitIdleBackup
    /\ rs_pc = "start"
    /\ tar_file_path = NightlyArchive
    /\ server \in StartingServers
    /\ sql_files = <<>>
    /\ rs_i = 0
    /\ success_count = 0
    /\ ops = <<>>
    /\ tally = NoTally
    /\ rs_return = NotReturnedYet

InitSelect ==
    /\ cmd = "select"
    /\ InitEnv
    /\ InitIdleBackup
    /\ InitIdleRestore
    /\ sel_pc \in {"call", "enter"}
    /\ \/ /\ sel_pc = "call"
          /\ offered = <<>>
          /\ \E inp \in ParseInputs : selection = inp[1] /\ max_num = inp[2]
       \/ /\ sel_pc = "enter"
          /\ offered \in OfferedLists
          /\ selection = <<>>
          /\ max_num = 0
    /\ parsed = NoCall
    /\ confirmed = FALSE
    /\ sel_return = NotReturned
    /\ err_msgs = FALSE

NextSelect == ParseSelectionCall \/ SelectEnter \/ SelectPrompt \/ SelectProcess

SpecSelect == InitSelect /\ [][NextSelect]_vars

\* a backup with every output file name of at most MaxSegs segments
InitPath ==
    /\ cmd = "backup"
    /\ InitEnv
    /\ InitIdleSelect
    /\ InitIdleRestore
    /\ InitBackup(AllOutputPaths(MaxSegs), {<<"a">>, <<"b", "a">>})

SpecPath == InitPath /\ [][NextBackup]_vars

\* ---- compress_backups followed by extract_backup on the archive it returned
TmpDir == <<(<<"tmp">>)>>

\* lists of dump files with distinct base names, in the output directory or elsewhere
RoundTripLists ==
    {q \in DistinctSeqs({SqlFile(d, db) : d \in {BackupsDir, TmpDir}, db \in {"a", "b", "c"}},
                        MaxDbs) :
        /\ q # <<>>
        /\ NoRepeat([k \in 1..Len(q) |-> Name(q[k])])}

\* what the dump files hold
RoundTripContents == {Dump("a"), Dump("b")}

RECURSIVE WriteAll(_, _, _)
WriteAll(files, q, content) ==
    IF q = <<>> THEN files
    ELSE WriteAll(WriteFile(files, Head(q), content[Len(q)]), Tail(q), content)

\* the directories the files of a disk lie in
DirsOf(files) == {<<>>, BackupsDir} \cup {Parent(q) : q \in DOMAIN files}

\* the dump files are on disk and create_backup is about to call
\* compress_backups on them; the extraction directory of second 1 may be
\* there already, left by a restore run, holding c.sql
InitRoundTrip ==
    /\ cmd = "roundtrip"
    /\ now = 1
    /\ exit_status = NotExited
    /\ InitIdleSelect
    /\ InitIdleRestore
    /\ bk_pc = "dumping"
    /\ output_path = NoPathGiven
    /\ output_dir = BackupsDir
    /\ custom_filename \in {NoName, [given |-> TRUE, name |-> <<"nightly", "zip">>]}
    /\ databases = <<>>
    /\ bk_i = 1
    /\ timestamp = 1
    /\ dump_log = <<>>
    /\ compress_log = <<>>
    /\ bk_return = NotYet
    /\ backup_files \in RoundTripLists
    /\ \E content \in [1..MaxDbs -> RoundTripContents], left \in BOOLEAN :
         LET tar_file == TarFile(output_dir, custom_filename, timestamp)
             dumps == WriteAll(NoFiles, backup_files, content)
         IN  fs = IF left
                  THEN WriteFile(dumps, Join(ExtractDir(tar_file, 1), <<"c", "sql">>),
                                 Dump("c"))
                  ELSE dumps
    /\ dirs = DirsOf(fs)

\* the archive compress_backups returned is given to extract_backup
ExtractReturned ==
    /\ cmd = "roundtrip"
    /\ bk_pc = "done"
    /\ bk_return.path.given
    /\ rs_pc = "idle"
    /\ rs_pc' = "extract"
    /\ tar_file_path' = bk_return.path.path
    /\ UNCHANGED <<server, sql_files, rs_i, success_count, ops, tally, rs_return>>
    /\ UNCHANGED <<selVars, envVars, bkVars>>

NextRoundTrip == CreateBackupFinish \/ ExtractReturned \/ RestoreExtract

SpecRoundTrip == InitRoundTrip /\ [][NextRoundTrip]_vars

InitBackupRun ==
    /\ cmd = "backup"
    /\ InitEnv
    /\ InitIdleSelect
    /\ InitIdleRestore
    /\ InitBackup(DocOutputPaths, DatabaseLists)

\* one run of the tool: "mdump backup" or "mdump restore"
Init == InitBackupRun \/ InitRestore

Next == NextBackup \/ NextRestore

Spec == Init /\ [][Next]_vars

\* ================================================================== properties
\* ------------------------------------------------------------------ reading a
\* selection by its grammar (independent of parse_selection): tokens are the
\* comma-free runs; a token is an integer or "start-end", white space around a
\* token or a number being ignored.
Cuts(s) == {0, Len(s) + 1} \cup {i \in 1..Len(s) : s[i] = ","}

NumTokens(s) == Cardinality(Cuts(s)) - 1

\* the k-th token, from the left
TokenAt(s, k) ==
    LET c == SortedSeq(Cuts(s))
    IN  SubSeq(s, c[k] + 1, c[k + 1] - 1)

Trim(s) ==
    LET keep == {i \in 1..Len(s) : s[i] # " "}
    IN  IF keep = {} THEN <<>>
        ELSE SubSeq(s, CHOOSE i \in keep : \A j \in keep : i <= j,
                       CHOOSE i \in keep : \A j \in keep : i >= j)

IsNatural(s) == s # <<>> /\ \A i \in 1..Len(s) : s[i] \in {Digits[d] : d \in 1..10}

RECURSIVE NaturalOf(_)
NaturalOf(s) ==
    IF s = <<>> THEN 0
    ELSE 10 * NaturalOf(SubSeq(s, 1, Len(s) - 1)) + DigitVal(s[Len(s)])

\* an integer: digits with an optional sign
IsInteger(s) == s # <<>> /\ IsNatural(IF s[1] \in {"-", "+"} THEN Tail(s) ELSE s)

IntegerOf(s) ==
    IF s[1] = "-" THEN 0 - NaturalOf(Tail(s))
    ELSE IF s[1] = "+" THEN NaturalOf(Tail(s))
    ELSE NaturalOf(s)

\* the places where a token divides into "start-end"
RangeSeps(t) ==
    {i \in 1..Len(t) : /\ t[i] = "-"
                       /\ IsInteger(Trim(SubSeq(t, 1, i - 1)))
                       /\ IsInteger(Trim(SubSeq(t, i + 1, Len(t))))}

\* what a token is: "int", "range" or "junk", with its value(s)
ReadToken(token) ==
    LET t == Trim(token)
    IN  IF IsInteger(t) THEN [is |-> "int", lo |-> IntegerOf(t), hi |-> IntegerOf(t)]
        ELSE IF RangeSeps(t) # {}
        THEN LET i == CHOOSE i \in RangeSeps(t) : TRUE
             IN  [is |-> "range", lo |-> IntegerOf(Trim(SubSeq(t, 1, i - 1))),
                  hi |-> IntegerOf(Trim(SubSeq(t, i + 1, Len(t))))]
        ELSE [is |-> "junk", lo |-> 0, hi |-> 0]

\* the error kind section 4.1 of the specification gives a token, "none" for a good one
TokenKind(token, n) ==
    LET r == ReadToken(token)
    IN  CASE r.is = "junk" -> "NotANumber"
          [] r.is = "int" -> IF r.lo < 1 \/ r.lo > n THEN "OutOfRange" ELSE "none"
          [] r.is = "range" ->
                IF r.lo > r.hi \/ r.lo < 1 \/ r.hi > n THEN "InvalidRange" ELSE "none"

BadTokens(s, n) == {k \in 1..NumTokens(s) : TokenKind(TokenAt(s, k), n) # "none"}

\* the union of the indices the tokens refer to
ReferencedIndices(s) ==
    UNION {ReadToken(TokenAt(s, k)).lo .. ReadToken(TokenAt(s, k)).hi : k \in 1..NumTokens(s)}

IsAscending(q) == \A i \in 1..(Len(q) - 1) : q[i] < q[i + 1]

\* C2: a selection made only of integers and start-end ranges within 1..max_num
\* parses to the indices its tokens refer to: their union, each once, ascending,
\* whatever the order of the tokens and however they overlap.
C2_ValidSelectionIsSortedUnion ==
    (sel_pc = "called" /\ BadTokens(selection, max_num) = {})
        => /\ parsed.ok
           /\ IsAscending(parsed.indices)
           /\ {parsed.indices[i] : i \in 1..Len(parsed.indices)} = ReferencedIndices(selection)

\* "1,3-5,7" with max_num 7 gives [1,3,4,5,7]
C2_Witness ==
    /\ sel_pc = "called"
    /\ selection = <<"1", ",", "3", "-", "5", ",", "7">>
    /\ max_num = 7
    /\ parsed.ok
    /\ parsed.indices = <<1, 3, 4, 5, 7>>

\* C3: a selection with a bad token fails, and with the kind of its first bad
\* token: InvalidRange for a range with start > end, start < 1 or end > max_num,
\* OutOfRange for an integer < 1 (zero or negative) or > max_num, NotANumber for
\* a token that is no integer.
C3_ErrorKindOfFirstBadToken ==
    (sel_pc = "called" /\ BadTokens(selection, max_num) # {})
        => LET first == CHOOSE k \in BadTokens(selection, max_num) :
                            \A j \in BadTokens(selection, max_num) : k <= j
           IN  /\ ~parsed.ok
               /\ parsed.indices = <<>>
               /\ parsed.kind = TokenKind(TokenAt(selection, first), max_num)

EndsInZip(name) == Len(name) >= 2 /\ name[Len(name)] = "zip"
EndsInTar(name) == Len(name) >= 2 /\ name[Len(name)] = "tar"
EndsInTarGz(name) == Len(name) >= 3 /\ name[Len(name) - 1] = "tar" /\ name[Len(name)] = "gz"

EndsInArchiveSuffix(name) == EndsInZip(name) \/ EndsInTar(name) \/ EndsInTarGz(name)

\* the name with its extension made .tar.gz; a name ending in .tar.gz as it is
CanonicalArchiveName(name) ==
    IF EndsInTarGz(name) THEN name
    ELSE SubSeq(name, 1, Len(name) - 1) \o <<"tar", "gz">>

\* C1: an output path whose final component ends in .zip, .tar or .tar.gz names
\* the archive: the working directory is its parent, the explicit archive name
\* its final component, no directory of that name is made, and the archive is
\* written at parent/name, the name ending in .tar.gz.
C1_ArchivePathIsHonoured ==
    (cmd = "backup" /\ bk_pc # "new" /\ output_path.given
        /\ EndsInArchiveSuffix(Name(output_path.path)))
        => /\ output_dir = Parent(output_path.path)
           /\ custom_filename = [given |-> TRUE, name |-> Name(output_path.path)]
           /\ output_path.path \notin dirs
           /\ (bk_return.returned /\ bk_return.path.given)
                => /\ bk_return.path.path =
                        Join(Parent(output_path.path),
                             CanonicalArchiveName(Name(output_path.path)))
                   /\ Exists(fs, bk_return.path.path)

\* the dump files handed to compress_backups, and the disk before the call
PackedFiles == compress_log[1].files
DiskBefore == compress_log[1].before

AllDeleted(ps) == \A k \in 1..Len(ps) : ~Exists(fs, ps[k])

Untouched(ps) == \A k \in 1..Len(ps) : Exists(fs, ps[k]) /\ fs[ps[k]] = DiskBefore[ps[k]]

ArchiveWritten(tar_file) ==
    /\ Exists(fs, tar_file)
    /\ fs[tar_file].kind = "tar"
    /\ fs[tar_file].complete

\* C5 as stated: compress_backups either returns the archive, the archive
\* existing and every input deleted, or fails, whatever the error, with every
\* input still on disk unchanged.
C5_AllOrNothing ==
    (bk_pc = "done" /\ compress_log # <<>>)
        => IF bk_return.path.given
           THEN AllDeleted(PackedFiles) /\ ArchiveWritten(bk_return.path.path)
           ELSE Untouched(PackedFiles)

\* C5, amended: success is as stated; a failure to create the archive or to
\* write a member returns no archive and leaves every input unchanged; a failure
\* while the inputs are deleted returns no archive either, the archive being
\* complete on disk, the inputs before the failing one deleted and the failing
\* one and those after it unchanged.
C5_PackingOutcomes ==
    (bk_pc = "done" /\ compress_log # <<>>)
        => LET c == compress_log[1]
           IN  CASE c.outcome.at = "none" ->
                      /\ bk_return.path = [given |-> TRUE, path |-> c.tar_file]
                      /\ AllDeleted(c.files)
                      /\ ArchiveWritten(c.tar_file)
                 [] c.outcome.at \in {"open", "add"} ->
                      /\ ~bk_return.path.given
                      /\ Untouched(c.files)
                 [] c.outcome.at = "unlink" ->
                      /\ ~bk_return.path.given
                      /\ ArchiveWritten(c.tar_file)
                      /\ AllDeleted(SubSeq(c.files, 1, c.outcome.k - 1))
                      /\ Untouched(SubSeq(c.files, c.outcome.k, Len(c.files)))

\* the second member could not be written: no archive, both dumps still there
C5_Witness ==
    /\ bk_pc = "done"
    /\ compress_log # <<>>
    /\ compress_log[1].outcome = [at |-> "add", k |-> 2]
    /\ ~bk_return.path.given
    /\ Untouched(PackedFiles)

\* the databases whose dump succeeded, in the order they were dumped
RECURSIVE Succeeded(_)
Succeeded(log) ==
    IF log = <<>> THEN <<>>
    ELSE IF Head(log).ok THEN <<Head(log).db>> \o Succeeded(Tail(log))
    ELSE Succeeded(Tail(log))

Failed(log) == {log[k].db : k \in {i \in 1..Len(log) : ~log[i].ok}}

MembersNamed(members, name) == {k \in 1..Len(members) : members[k].name = name}

\* C6: the archive create_backup returns holds exactly one top-level member
\* <name>.sql, the complete dump, for each database whose dump succeeded, and
\* none for a database whose dump failed; when no dump succeeded
\* compress_backups is not called and nothing is returned.
C6_ArchiveHoldsSucceededDumps ==
    (bk_pc = "done" /\ databases # <<>>)
        => /\ bk_return.path.given
                => LET members == fs[bk_return.path.path].members
                       good == Succeeded(dump_log)
                   IN  /\ ArchiveWritten(bk_return.path.path)
                       /\ Len(members) = Len(good)
                       /\ \A k \in 1..Len(good) :
                             /\ Cardinality(MembersNamed(members, <<(<<good[k], "sql">>)>>)) = 1
                             /\ \A m \in MembersNamed(members, <<(<<good[k], "sql">>)>>) :
                                   members[m].data = Dump(good[k])
                       /\ \A db \in Failed(dump_log) :
                             MembersNamed(members, <<(<<db, "sql">>)>>) = {}
           /\ Succeeded(dump_log) = <<>>
                => compress_log = <<>> /\ ~bk_return.path.given

\* three databases, the second dump failed: the archive holds the other two
C6_Witness ==
    /\ bk_pc = "done"
    /\ Len(databases) = 3
    /\ output_dir # <<>>
    /\ Succeeded(dump_log) = <<databases[1], databases[3]>>
    /\ bk_return.path.given
    /\ Len(fs[bk_return.path.path].members) = 2

\* ------------------------------------------------------------------ restore
\* The log of a run falls into one group of steps per dump file processed, each
\* beginning with the existence query.
GroupStarts == {k \in 1..Len(ops) : ops[k].op = "exists"}

NumGroups == Cardinality(GroupStarts)

\* the position at which the j-th group begins
GroupStart(j) == CHOOSE k \in GroupStarts : Cardinality({i \in GroupStarts : i <= k}) = j

GroupEnd(j) == IF j = NumGroups THEN Len(ops) ELSE GroupStart(j + 1) - 1

Group(j) == SubSeq(ops, GroupStart(j), GroupEnd(j))

StepNames(g) == [i \in 1..Len(g) |-> g[i].op]

RestoredOk == {k \in 1..Len(ops) : ops[k].op = "restore" /\ ops[k].res = "ok"}

Cancelled == Len(ops) > 0 /\ ops[Len(ops)] = Op("prompt", ops[Len(ops)].db, "cancel")

LoopOver == rs_pc \in {"cleanup", "done"} /\ sql_files # <<>> /\ rs_i > 0

\* a group in which the drop, the create or the restore failed
HasFailure(g) == \E i \in 1..Len(g) : g[i].op \in {"drop", "create", "restore"} /\ g[i].res = "failed"

\* C7: per-item failures never abort a batch. create_backup invokes the dump
\* of every database of its input once, in input order, whatever the earlier
\* outcomes; in restore_backup the j-th dump file processed is the j-th dump
\* file found, and the loop ends only after the last dump file or at the
\* answer cancel, so a failed drop, create or restore is followed by the
\* next dump file.
C7_FailuresDoNotAbort ==
    /\ cmd = "backup" =>
          /\ Len(dump_log) <= Len(databases)
          /\ \A k \in 1..Len(dump_log) : dump_log[k].db = databases[k]
          /\ bk_pc = "dumping" => Len(dump_log) = bk_i - 1
          /\ bk_pc = "done" => Len(dump_log) = Len(databases)
    /\ cmd = "restore" =>
          /\ NumGroups <= Len(sql_files)
          /\ \A j \in 1..NumGroups : ops[GroupStart(j)].db = DatabaseName(sql_files[j])
          /\ rs_pc = "loop" => NumGroups = rs_i - 1
          /\ LoopOver => (NumGroups = Len(sql_files) \/ Cancelled)
          /\ \A j \in 1..NumGroups :
                (HasFailure(Group(j)) /\ j < Len(sql_files) /\ LoopOver) => NumGroups > j

\* the first of three dump files could not be restored (drop, create or
\* restore failed), and the two after it were restored
C7_Witness ==
    /\ cmd = "restore"
    /\ rs_pc = "done"
    /\ Len(sql_files) = 3
    /\ NumGroups = 3
    /\ HasFailure(Group(1))
    /\ ~HasFailure(Group(2))
    /\ success_count = 2
    /\ tally = [printed |-> TRUE, succeeded |-> 2, attempted |-> 3]

\* three databases, the first two dumps failed, the third was still made
C7_BackupWitness ==
    /\ cmd = "backup"
    /\ bk_pc = "done"
    /\ Len(databases) = 3
    /\ [k \in 1..3 |-> dump_log[k].ok] = <<FALSE, FALSE, TRUE>>

IsOverwrite(g) == Len(g) >= 2 /\ g[2].op = "prompt" /\ g[2].res = "overwrite"

\* C8: after the answer overwrite the steps are drop, create, restore in that
\* order; a failed drop is followed by no create and no restore for the file,
\* a failed create by no restore; in both cases the next dump file is
\* processed and the file is not counted as succeeded.
C8_OverwriteOrder ==
    cmd = "restore" =>
      /\ \A j \in 1..NumGroups :
            LET g == Group(j)
            IN  IsOverwrite(g) =>
                  /\ \A i \in 1..Len(g) : g[i].db = g[1].db
                  /\ g[1].res = "yes"
                  /\ Len(g) >= 3
                  /\ g[3].op = "drop"
                  /\ IF g[3].res = "failed"
                     THEN StepNames(g) = <<"exists", "prompt", "drop">>
                     ELSE /\ Len(g) >= 4
                          /\ g[4].op = "create"
                          /\ IF g[4].res = "failed"
                             THEN StepNames(g) = <<"exists", "prompt", "drop", "create">>
                             ELSE StepNames(g) = <<"exists", "prompt", "drop", "create", "restore">>
                  /\ (g[Len(g)].op \in {"drop", "create"} /\ j < Len(sql_files) /\ LoopOver)
                        => NumGroups > j
      /\ success_count = Cardinality(RestoredOk)
      /\ tally.printed => tally.succeeded = Cardinality(RestoredOk)

\* overwrite answered for both dump files: the drop failed for the first, the
\* second was dropped, created and restored
C8_Witness ==
    /\ cmd = "restore"
    /\ rs_pc = "done"
    /\ NumGroups = 2
    /\ IsOverwrite(Group(1))
    /\ StepNames(Group(1)) = <<"exists", "prompt", "drop">>
    /\ Group(1)[3].res = "failed"
    /\ IsOverwrite(Group(2))
    /\ StepNames(Group(2)) = <<"exists", "prompt", "drop", "create", "restore">>
    /\ Group(2)[5].res = "ok"
    /\ tally = [printed |-> TRUE, succeeded |-> 1, attempted |-> 2]

CancelSteps == {k \in 1..Len(ops) : ops[k].op = "prompt" /\ ops[k].res = "cancel"}

\* C9: the answer cancel ends the loop at once: it is the last step of the
\* run, no step follows it for the cancelled file or any later one, and every
\* database restored earlier in the run is still restored and still counted.
C9_CancelStopsTheLoop ==
    (cmd = "restore" /\ CancelSteps # {}) =>
      /\ CancelSteps = {Len(ops)}
      /\ rs_pc \in {"cleanup", "done"}
      /\ \A k \in RestoredOk : ops[k].db \in DOMAIN server /\ server[ops[k].db] = "restored"
      /\ success_count = Cardinality(RestoredOk)
      /\ rs_pc = "done" =>
            /\ tally.printed
            /\ tally.succeeded = Cardinality(RestoredOk)
            /\ rs_return = ReturnedValue(RestoredOk # {})

\* cancel answered at the second of three dump files, the first restored
C9_Witness ==
    /\ cmd = "restore"
    /\ rs_pc = "done"
    /\ Len(sql_files) = 3
    /\ NumGroups = 2
    /\ Cancelled
    /\ Group(1)[Len(Group(1))] = Op("restore", DatabaseName(sql_files[1]), "ok")
    /\ server[DatabaseName(sql_files[1])] = "restored"
    /\ DatabaseName(sql_files[3]) \in DOMAIN server => server[DatabaseName(sql_files[3])] = "old"
    /\ tally.succeeded = 1

\* the dump files in the archive: its top-level members named <name>.sql
DumpFilesInArchive(archive) ==
    {k \in 1..Len(archive.members) :
        /\ Len(archive.members[k].name) = 1
        /\ Len(archive.members[k].name[1]) >= 2
        /\ archive.members[k].name[1][Len(archive.members[k].name[1])] = "sql"}

\* the steps taken for each dump file, as C10 states them
NewIsCreatedSkipIsUntouched ==
    \A j \in 1..NumGroups :
       LET g == Group(j)
       IN  /\ g[1].res = "no" =>
                 /\ Len(g) >= 2
                 /\ g[2].op = "create"
                 /\ IF g[2].res = "ok"
                    THEN StepNames(g) = <<"exists", "create", "restore">>
                    ELSE StepNames(g) = <<"exists", "create">>
           /\ (Len(g) >= 2 /\ g[2].op = "prompt" /\ g[2].res = "skip") =>
                 /\ StepNames(g) = <<"exists", "prompt">>
                 /\ g[1].db \in DOMAIN server
                 /\ server[g[1].db] = "old"

\* C10: a database that does not exist is created and then restored with no
\* prompt; a database that exists and is skipped gets no drop, create or
\* restore; the tally is the number of databases restored over the number of
\* dump files in the archive.
C10_CreateSkipAndTally ==
    cmd = "restore" =>
      /\ NewIsCreatedSkipIsUntouched
      /\ tally.printed =>
            /\ tally.succeeded = Cardinality(RestoredOk)
            /\ tally.attempted = Cardinality(DumpFilesInArchive(fs[tar_file_path]))

\* ------------------------------------------------------------------ exit status
BackupFullSuccess ==
    /\ bk_pc = "done"
    /\ Len(dump_log) = Len(databases)
    /\ \A k \in 1..Len(dump_log) : dump_log[k].ok
    /\ bk_return.path.given

RestoreFullSuccess ==
    /\ rs_pc = "done"
    /\ sql_files # <<>>
    /\ Cardinality(RestoredOk) = Len(sql_files)

\* C11: the exit status is zero on full success, and non-zero when the
\* selection at the backup prompt was empty, when the connection failed, or
\* when no database was successfully processed.
C11_ExitStatusConvention ==
    exit_status.exited =>
      /\ cmd = "backup" =>
            /\ BackupFullSuccess => exit_status.code = 0
            /\ exit_status.at = "noselection" => exit_status.code # 0
            /\ exit_status.at = "connect" => exit_status.code # 0
            /\ (exit_status.at = "end" /\ Succeeded(dump_log) = <<>>) => exit_status.code # 0
      /\ cmd = "restore" =>
            /\ RestoreFullSuccess => exit_status.code = 0
            /\ RestoredOk = {} => exit_status.code # 0

\* ------------------------------------------------------------------ extraction directory
\* the names of the dump files extract_backup returned
EnumeratedNames == {Name(sql_files[k]) : k \in 1..Len(sql_files)}

\* the names of the top-level .sql members of the archive
ArchiveDumpNames(archive) == {archive.members[k].name[1] : k \in DumpFilesInArchive(archive)}

\* the step in which extract_backup makes its directory and unpacks
ExtractBackupCalled == rs_pc = "extract" /\ rs_pc' # "extract" /\ Exists(fs, tar_file_path)

\* C12: extract_backup unpacks into a fresh directory, one that did not exist
\* before the call (nor belongs to another run), so the dump files it
\* enumerates are exactly the top-level .sql members of the archive unpacked.
C12_FreshExtractionDirectory ==
    /\ [][ExtractBackupCalled => ExtractDir(tar_file_path, now') \notin dirs]_vars
    /\ [](sql_files # <<>> =>
            /\ Len(sql_files) = Cardinality(EnumeratedNames)
            /\ EnumeratedNames = ArchiveDumpNames(fs[tar_file_path]))

\* the directory the dump files were extracted into
ExtractionDir == Parent(sql_files[1])

Gone(dir) == dir \notin dirs /\ \A q \in DOMAIN fs : ~IsUnder(q, dir)

\* restore_backup has returned after its loop was entered
LoopEnded == rs_pc = "done" /\ rs_i > 0

\* C13: whenever the loop over the dump files has ended, by running out of
\* dump files or by cancel, the extraction directory is deleted before
\* restore_backup returns and the count (succeeded, attempted) is reported.
C13_CleanupAndCountAfterLoop ==
    (cmd = "restore" /\ LoopEnded) =>
      /\ rs_return.returned
      /\ NumGroups = Len(sql_files) \/ Cancelled
      /\ ExtractionDir = ExtractDir(tar_file_path, now)
      /\ Gone(ExtractionDir)
      /\ tally = [printed |-> TRUE, succeeded |-> Cardinality(RestoredOk),
                  attempted |-> Len(sql_files)]

\* cancel answered at the second of two dump files, the first restored: the
\* directory is gone and 1/2 is reported
C13_Witness ==
    /\ cmd = "restore"
    /\ LoopEnded
    /\ Cancelled
    /\ Len(sql_files) = 2
    /\ NumGroups = 2
    /\ Gone(ExtractionDir)
    /\ tally = [printed |-> TRUE, succeeded |-> 1, attempted |-> 2]

\* ------------------------------------------------------------------ selection errors
\* an answer that is neither empty nor 'all' and has a bad token
InvalidAnswer(sel, n) ==
    /\ sel # <<>>
    /\ Lower(sel) # <<"a", "l", "l">>
    /\ BadTokens(sel, n) # {}

InRange(q, dbs) == \A i \in 1..Len(q) : \E j \in 1..Len(dbs) : q[i] = dbs[j]

\* after an invalid answer the error is reported and the prompt is up again
InvalidIsRecovered ==
    (sel_pc = "answered" /\ InvalidAnswer(selection, Len(offered)))
        => (sel_pc' = "prompt" /\ sel_return' = NotReturned /\ err_msgs')

\* the answers select_databases returns on
ReturnsForCause ==
    (sel_pc = "answered" /\ sel_pc' = "returned")
        => \/ selection = <<>>
           \/ Lower(selection) = <<"a", "l", "l">>
           \/ (~InvalidAnswer(selection, Len(offered)) /\ confirmed')

\* C14: an invalid selection at the prompt is recovered locally: no exception
\* leaves select_databases and the operator is prompted again;
\* select_databases returns only on an empty answer, on 'all' or on a valid
\* selection the operator confirmed; a non-empty selection returned is a
\* duplicate-free list of offered databases.
C14_InvalidSelectionIsRecovered ==
    /\ [](sel_pc # "raised")
    /\ []((sel_pc = "returned" /\ sel_return # <<>>)
            => (NoRepeat(sel_return) /\ InRange(sel_return, offered)))
    /\ [][InvalidIsRecovered /\ ReturnsForCause]_vars

\* "0-2" was answered with three databases offered: the error was reported and
\* the prompt is up again
C14_Witness ==
    /\ sel_pc = "prompt"
    /\ Len(offered) = 3
    /\ parsed = ParseError("InvalidRange")
    /\ err_msgs
    /\ sel_return = NotReturned

\* ------------------------------------------------------------------ failed dumps
\* the dump_database calls that ended in the given way
DumpsEnded(outcome) == {k \in 1..Len(dump_log) : dump_log[k].outcome = outcome}

\* the target file of the k-th dump_database call
TargetFile(k) == SqlFile(output_dir, dump_log[k].db)

HandedToPackager(file) ==
    \/ \E i \in 1..Len(backup_files) : backup_files[i] = file
    \/ \E c \in 1..Len(compress_log) :
          \E i \in 1..Len(compress_log[c].files) : compress_log[c].files[i] = file

\* C15: when mysqldump exits with a non-zero status the dump is recorded as
\* failed and the partial target file is deleted: it is not on disk
\* afterwards and is never handed to compress_backups.
C15_NonZeroExitRemovesPartialFile ==
    cmd = "backup" =>
      \A k \in DumpsEnded("nonzero") :
         /\ ~dump_log[k].ok
         /\ ~Exists(fs, TargetFile(k))
         /\ ~HandedToPackager(TargetFile(k))

\* the first of two dumps exited with a non-zero status, the second was made
\* and packed: the archive holds one member and the first target file is gone
C15_Witness ==
    /\ cmd = "backup"
    /\ bk_pc = "done"
    /\ Len(dump_log) = 2
    /\ dump_log[1].outcome = "nonzero"
    /\ dump_log[2].outcome = "ok"
    /\ ~Exists(fs, TargetFile(1))
    /\ bk_return.path.given
    /\ Len(fs[bk_return.path.path].members) = 1

\* C18: whenever dump_database reports a dump as failed, for whatever reason,
\* no target file of that attempt is on disk once create_backup has returned.
C18_FailedDumpLeavesNoFile ==
    (cmd = "backup" /\ bk_pc = "done" /\ bk_return.returned) =>
      \A k \in 1..Len(dump_log) : ~dump_log[k].ok => ~Exists(fs, TargetFile(k))

\* ------------------------------------------------------------------ round trip
\* extract_backup has been called on the archive compress_backups returned
Unpacked == cmd = "roundtrip" /\ rs_pc \notin {"idle", "extract"}

\* the file of the given name among the files that were packed
PackedNamed(name) == CHOOSE k \in 1..Len(PackedFiles) : Name(PackedFiles[k]) = name

\* C16: packing dump files of distinct base names with compress_backups and
\* unpacking the archive with extract_backup gives the same file names with the
\* same contents, none missing and none extra.
C16_RoundTrip ==
    Unpacked =>
      /\ rs_pc = "confirm"
      /\ Len(sql_files) = Len(PackedFiles)
      /\ EnumeratedNames = {Name(PackedFiles[k]) : k \in 1..Len(PackedFiles)}
      /\ \A k \in 1..Len(sql_files) :
            fs[sql_files[k]] = DiskBefore[PackedFiles[PackedNamed(Name(sql_files[k]))]]

\* ------------------------------------------------------------------ existing databases
\* the dump files processed whose database was found on the server
FoundExisting == {j \in 1..NumGroups : Group(j)[1].res = "yes"}

\* C17: a database that exists when its dump file is processed still exists
\* when restore_backup returns, whatever the operator answered and however
\* drop, create and restore ended.
C17_ExistingDatabaseSurvives ==
    (cmd = "restore" /\ rs_pc = "done" /\ rs_return.returned) =>
      \A j \in FoundExisting : Group(j)[1].db \in DOMAIN server

\* ------------------------------------------------------------------ leftovers
\* restore_backup returns, extract_backup having made its directory
ReturnsAfterMkdir ==
    /\ rs_pc \in {"extract", "confirm", "cleanup"}
    /\ rs_pc' = "done"
    /\ Exists(fs, tar_file_path)

\* C19: on every path on which restore_backup returns after the extraction
\* directory was made (extraction error, no .sql file found, the operator
\* declining to proceed, cancel, the loop running out) the directory is no
\* longer there.
C19_NoExtractionDirectoryLeft ==
    [][ReturnsAfterMkdir =>
         /\ ExtractDir(tar_file_path, now') \notin dirs'
         /\ \A q \in DOMAIN fs' : ~IsUnder(q, ExtractDir(tar_file_path, now'))]_vars

====
